---- MODULE Spec2Model ----
(***************************************************************************)
(* Model of the student-attention browser extension: the background       *)
(* service worker (tab lifecycle listeners, the capture scheduler, the     *)
(* device-id cache, the uploader) and the page functions it injects.       *)
(*                                                                         *)
(* Time is counted in seconds.  A timer holds the seconds that remain      *)
(* until it fires; a timer that is due fires before time advances.         *)
(***************************************************************************)
EXTENDS Integers, Sequences, FiniteSets, TLC

\* ------------------------------------------------------------------ bounds
MaxTabs    == 2   \* tabs the browser has open
MaxStarts  == 2   \* calls of startCameraCapture in one run
MaxPending == 1   \* asynchronous browser calls awaiting their callback
MaxAge     == 5   \* seconds followed after the latest start
MaxMsgs    == 2   \* messages the background receives in one run
MaxCalls   == 3   \* getDeviceId calls followed on their own
MaxVideos  == 2   \* video elements of a page
MaxTicks   == 3   \* capture ticks whose retry chain is followed
MaxQueries == 2   \* submissions of the dashboard's search form

\* ------------------------------------------------------- program constants
StartupDelay == 1          \* setTimeout(..., 1000)
Period == 2                \* setInterval(..., 2000)

Tabs == 1..MaxTabs
NoTimer == 0               \* captureInterval = null

\* A URL is the sequence of its parts.
MeetUrl  == <<"https:", "meet.google.com", "abc-defg-hij">>
OtherUrl == <<"https:", "example.com">>
NoUrl    == <<>>           \* tab.url undefined
Urls == {MeetUrl, OtherUrl, NoUrl}

\* tab.url && tab.url.includes('meet.google.com')
IsMeetUrl(url) ==
  url # NoUrl /\ \E i \in 1..Len(url) : url[i] = "meet.google.com"

\* ------------------------------------------------------- meeting detector
\* What a document can contain that the detector looks at, and two elements
\* it does not look at.
KnownMarkers == {"data-is-muted", "data-allocation-index",
                 "data-participant-id", "data-tooltip-id=tt-m0", "video"}
ExtraMarkers == {"data-meeting-area", "data-meeting-container",
                 "data-meeting-title", "data-meeting-status"}
Unrelated == {"div", "data-tooltip-id=tt-m1"}
Docs == SUBSET (KnownMarkers \cup ExtraMarkers \cup Unrelated)

Null == "null"
\* document.querySelector(selector): the matching element, or null
querySelector(doc, selector) == IF selector \in doc THEN selector ELSE Null

\* The indicators without the query for a video element.
indicatorsWithoutVideo(doc) ==
  [ mutedButton      |-> querySelector(doc, "data-is-muted"),
    allocationIndex  |-> querySelector(doc, "data-allocation-index"),
    participantId    |-> querySelector(doc, "data-participant-id"),
    tooltip          |-> querySelector(doc, "data-tooltip-id=tt-m0"),
    meetingArea      |-> querySelector(doc, "data-meeting-area"),
    meetingContainer |-> querySelector(doc, "data-meeting-container"),
    video            |-> Null,
    meetingTitle     |-> querySelector(doc, "data-meeting-title"),
    meetingStatus    |-> querySelector(doc, "data-meeting-status") ]

\* The indicators object of checkMeetingStatus
indicators(doc) ==
  [ mutedButton      |-> querySelector(doc, "data-is-muted"),
    allocationIndex  |-> querySelector(doc, "data-allocation-index"),
    participantId    |-> querySelector(doc, "data-participant-id"),
    tooltip          |-> querySelector(doc, "data-tooltip-id=tt-m0"),
    meetingArea      |-> querySelector(doc, "data-meeting-area"),
    meetingContainer |-> querySelector(doc, "data-meeting-container"),
    video            |-> querySelector(doc, "video"),
    meetingTitle     |-> querySelector(doc, "data-meeting-title"),
    meetingStatus    |-> querySelector(doc, "data-meeting-status") ]

\* Object.values(indicators).some(indicator => indicator !== null)
checkMeetingStatus(doc) ==
  LET ind == indicators(doc)
  IN  \E k \in DOMAIN ind : ind[k] # Null

\* Documents the lifecycle handlers are run on.
DocSamples == { {"div"}, {"data-is-muted", "video"}, {"data-meeting-area"} }

\* ---------------------------------------------------------------- state
VARIABLES
  captureInterval,  \* the global timer handle: NoTimer or an interval id
  timeouts,         \* pending startup timeouts [id, tab, rem]
  intervals,        \* live interval timers [id, tab, rem]
  nstarts,          \* timer ids handed out so far
  open,             \* open[t]: tab t exists
  pending,          \* pending[k][t]: browser calls of kind k awaiting callback
  badge,            \* badge text
  lastCmd,          \* the most recent scheduler command
  cleanStart,       \* the latest scheduler command is a start that found
                    \* no timeout pending and left no interval alive
  age,              \* while cleanStart: seconds since that start
  sinceStart,       \* while cleanStart: capture ticks since that start
  lastEvent,        \* the step taken last, recorded under SpecEvents only
  document,         \* detector: the document checkMeetingStatus is run on
  isInMeeting,      \* detector: {what it returned}, or NotRun
  popup,            \* popup: how far its script has run, and its status label
  videoElements,    \* capturer: the video elements of the page, in order
  mainVideo,        \* capturer: index of the element found, 0 if none
  storage,          \* uploader: chrome.storage.local's deviceId, or NoId
  uuids,            \* uploader: identifiers crypto.randomUUID has produced
  msgs,             \* uploader: msgs[m], the handling of message m
  chains,           \* page: chains[c], the captureCameraImage calls of tick c
  overlay,          \* dashboard: loadingOverlay.style.display
  results,          \* dashboard: what resultsDiv.innerHTML shows
  queries           \* dashboard: queries[q], the submit handler of submission q

schedVars == <<captureInterval, timeouts, intervals, nstarts, open,
               pending, badge, lastCmd, age, sinceStart, cleanStart>>

detectVars == <<document, isInMeeting, popup>>
findVars == <<videoElements, mainVideo>>

uploadVars == <<storage, uuids, msgs>>
chainVars == <<chains>>
dashVars == <<overlay, results, queries>>
pageVars == <<detectVars, findVars, uploadVars, chainVars, dashVars>>

vars == <<schedVars, lastEvent, pageVars>>

NotRun == {}               \* isInMeeting before the detector has returned
NotSearched == -1          \* mainVideo before find has returned

\* ------------------------------------------------------------ uploader
NoId == 0                  \* no deviceId: the key is absent, or none delivered
Msgs == 1..MaxMsgs

NoResponse == 0            \* no HTTP response: none yet, or fetch rejected
Statuses == {200, 404, 500}
MessageTypes == {"IMAGE_CAPTURED", "OTHER"}

\* response.ok
ResponseOk(status) == status \in 200..299

\* A message that has not arrived.  pc is the point its handling has reached;
\* before, generated and quiet record the history of its getDeviceId call.
NoMessage ==
  [ pc |-> "none", before |-> {}, snapshot |-> NoId, newId |-> NoId,
    generated |-> FALSE, quiet |-> FALSE, deviceId |-> NoId,
    status |-> NoResponse, jsonRead |-> FALSE, promise |-> "pending",
    posts |-> 0, responses |-> 0, success |-> FALSE ]

PendingKinds == {"tabsGet", "check"}

RECURSIVE SumOver(_, _)
SumOver(f, S) == IF S = {} THEN 0
                 ELSE LET x == CHOOSE y \in S : TRUE
                      IN  f[x] + SumOver(f, S \ {x})

\* Browser calls in flight for tabs 1..n.
RECURSIVE PendingUpTo(_)
PendingUpTo(n) ==
  IF n = 0 THEN 0
  ELSE pending["tabsGet"][n] + pending["check"][n] + PendingUpTo(n - 1)

NumPending == PendingUpTo(MaxTabs)

AddPending(k, t)  == [pending EXCEPT ![k][t] = @ + 1]
DropPending(k, t) == [pending EXCEPT ![k][t] = @ - 1]

\* ------------------------------------------------------ capture scheduler
\* A start that forgets the startup delay.
startCameraCaptureNoDelay(tabId) ==
  /\ nstarts < MaxStarts
  /\ intervals' = IF captureInterval # NoTimer
                  THEN {i \in intervals : i.id # captureInterval}
                  ELSE intervals
  /\ timeouts' = timeouts \cup {[id |-> nstarts + 1, tab |-> tabId, rem |-> 0]}
  /\ nstarts' = nstarts + 1
  /\ UNCHANGED captureInterval
  /\ lastCmd' = "start"
  /\ age' = 0
  /\ sinceStart' = 0
  /\ cleanStart' = (timeouts = {} /\ intervals' = {})

\* startCameraCapture(tabId): clear the interval the handle names, then
\* schedule the startup timeout that will create the new interval.
startCameraCapture(tabId) ==
  /\ nstarts < MaxStarts
  /\ intervals' = IF captureInterval # NoTimer
                  THEN {i \in intervals : i.id # captureInterval}
                  ELSE intervals
  /\ timeouts' = timeouts \cup
                   {[id |-> nstarts + 1, tab |-> tabId, rem |-> StartupDelay]}
  /\ nstarts' = nstarts + 1
  /\ UNCHANGED captureInterval
  /\ lastCmd' = "start"
  /\ age' = 0
  /\ sinceStart' = 0
  /\ cleanStart' = (timeouts = {} /\ intervals' = {})

\* stopCameraCapture(): clear the interval the handle names and null it.
stopCameraCapture ==
  /\ IF captureInterval # NoTimer
     THEN /\ intervals' = {i \in intervals : i.id # captureInterval}
          /\ captureInterval' = NoTimer
     ELSE UNCHANGED <<intervals, captureInterval>>
  /\ lastCmd' = "stop"
  /\ cleanStart' = FALSE
  /\ age' = 0
  /\ sinceStart' = 0
  /\ UNCHANGED <<timeouts, nstarts>>

SchedulerUnchanged ==
  UNCHANGED <<captureInterval, timeouts, intervals, nstarts, lastCmd,
              age, sinceStart, cleanStart>>

\* The callback of the startup timeout: captureInterval = setInterval(...)
StartupTimeoutFires(to) ==
  /\ to \in timeouts
  /\ to.rem = 0
  /\ timeouts' = timeouts \ {to}
  /\ captureInterval' = to.id
  /\ intervals' = intervals \cup {[id |-> to.id, tab |-> to.tab, rem |-> Period]}
  /\ UNCHANGED <<nstarts, open, pending, badge, lastCmd, age,
                 sinceStart, cleanStart>>

\* One capture tick: the interval callback runs executeScript of
\* captureCameraImage in its tab, and the interval is armed again.
CaptureTick(iv) ==
  /\ iv \in intervals
  /\ iv.rem = 0
  /\ intervals' = (intervals \ {iv}) \cup {[iv EXCEPT !.rem = Period]}
  /\ sinceStart' = IF cleanStart THEN sinceStart + 1 ELSE 0
  /\ UNCHANGED <<captureInterval, timeouts, nstarts, open, pending,
                 badge, lastCmd, age, cleanStart>>

TimerDue == \E x \in timeouts \cup intervals : x.rem = 0

\* One second passes; no timer is due.
Advance ==
  /\ ~TimerDue
  /\ timeouts \cup intervals # {}
  /\ cleanStart => age < MaxAge
  /\ age' = IF cleanStart THEN age + 1 ELSE 0
  /\ timeouts'  = {[x EXCEPT !.rem = @ - 1] : x \in timeouts}
  /\ intervals' = {[x EXCEPT !.rem = @ - 1] : x \in intervals}
  /\ UNCHANGED <<captureInterval, nstarts, open, pending, badge,
                 lastCmd, sinceStart, cleanStart>>

\* ------------------------------------------------------ tab lifecycle
\* chrome.tabs.onUpdated listener: a completed update of a Meet tab asks
\* the page for its meeting status.
OnUpdated(tabId, status, url) ==
  /\ open[tabId]
  /\ IF status = "complete" /\ IsMeetUrl(url)
     THEN /\ NumPending < MaxPending
          /\ pending' = AddPending("check", tabId)
     ELSE UNCHANGED pending
  /\ SchedulerUnchanged
  /\ UNCHANGED <<open, badge>>

\* The callback of executeScript(checkMeetingStatus).  The onUpdated and the
\* onActivated listener pass the same callback, so one action stands for both.
MeetingCheckDone(tabId) ==
  /\ pending["check"][tabId] > 0
  /\ pending' = DropPending("check", tabId)
  /\ \E doc \in DocSamples :
       LET result == open[tabId] /\ checkMeetingStatus(doc)
       IN  IF result
           THEN /\ badge' = "ON"
                /\ startCameraCapture(tabId)
           ELSE /\ badge' = ""
                /\ stopCameraCapture
  /\ UNCHANGED open

\* A removal handler that leaves the badge alone.
OnRemovedKeepingBadge(tabId) ==
  /\ open[tabId]
  /\ open' = [open EXCEPT ![tabId] = FALSE]
  /\ UNCHANGED badge
  /\ stopCameraCapture
  /\ UNCHANGED pending

\* chrome.tabs.onRemoved listener
OnRemoved(tabId) ==
  /\ open[tabId]
  /\ open' = [open EXCEPT ![tabId] = FALSE]
  /\ badge' = ""
  /\ stopCameraCapture
  /\ UNCHANGED pending

\* chrome.tabs.onActivated listener: asks the browser for the tab
OnActivated(tabId) ==
  /\ open[tabId]
  /\ NumPending < MaxPending
  /\ pending' = AddPending("tabsGet", tabId)
  /\ SchedulerUnchanged
  /\ UNCHANGED <<open, badge>>

\* The callback of chrome.tabs.get; on a tab that is gone, tab is undefined
\* and reading tab.url throws inside the callback.
TabsGetDone(tabId, url) ==
  /\ pending["tabsGet"][tabId] > 0
  /\ pending' = IF open[tabId] /\ IsMeetUrl(url)
                THEN [pending EXCEPT !["tabsGet"][tabId] = @ - 1,
                                     !["check"][tabId] = @ + 1]
                ELSE DropPending("tabsGet", tabId)
  /\ SchedulerUnchanged
  /\ UNCHANGED <<open, badge>>

\* ------------------------------------------------------ specification
InitScheduler ==
  /\ captureInterval = NoTimer
  /\ timeouts = {}
  /\ intervals = {}
  /\ nstarts = 0
  /\ open = [t \in Tabs |-> TRUE]
  /\ pending = [k \in PendingKinds |-> [t \in Tabs |-> 0]]
  /\ badge = ""
  /\ lastCmd = "none"
  /\ cleanStart = FALSE
  /\ age = 0
  /\ sinceStart = 0
  /\ lastEvent = <<"init", 0>>

\* The popup before it is opened.
PopupClosed == [pc |-> "closed", statusLabel |-> ""]

IdleDetector == document = {} /\ isInMeeting = NotRun /\ popup = PopupClosed
IdleCapturer == videoElements = <<>> /\ mainVideo = NotSearched
IdleUploader ==
  /\ storage = NoId
  /\ uuids = 0
  /\ msgs = <<>>
IdleChains == chains = <<>>
IdleDashboard == overlay = "none" /\ results = "empty" /\ queries = <<>>
IdlePages == IdleChains /\ IdleDashboard

Init ==
  InitScheduler /\ IdleDetector /\ IdleCapturer /\ IdleUploader /\ IdlePages

\* The updates a tab reports: <<changeInfo.status, tab.url>>
UpdateEvents == { <<"loading", MeetUrl>>, <<"complete", MeetUrl>>,
                  <<"complete", OtherUrl>>, <<"complete", NoUrl>> }

Next ==
  \/ \E t \in Tabs, e \in UpdateEvents :
        OnUpdated(t, e[1], e[2]) /\ UNCHANGED <<lastEvent, pageVars>>
  \/ \E t \in Tabs : MeetingCheckDone(t) /\ UNCHANGED <<lastEvent, pageVars>>
  \/ \E t \in Tabs : OnRemoved(t) /\ UNCHANGED <<lastEvent, pageVars>>
  \/ \E t \in Tabs : OnActivated(t) /\ UNCHANGED <<lastEvent, pageVars>>
  \/ \E t \in Tabs, u \in Urls :
        TabsGetDone(t, u) /\ UNCHANGED <<lastEvent, pageVars>>
  \/ \E to \in timeouts :
        StartupTimeoutFires(to) /\ UNCHANGED <<lastEvent, pageVars>>
  \/ \E iv \in intervals : CaptureTick(iv) /\ UNCHANGED <<lastEvent, pageVars>>
  \/ Advance /\ UNCHANGED <<lastEvent, pageVars>>

Spec == Init /\ [][Next]_vars

\* The same steps, each leaving its name and its tab in lastEvent.
NextEvents ==
  \/ \E t \in Tabs, e \in UpdateEvents :
        /\ OnUpdated(t, e[1], e[2])
        /\ lastEvent' = IF e[1] = "complete" /\ e[2] # NoUrl /\ ~IsMeetUrl(e[2])
                         THEN <<"navigatedAway", t>>
                         ELSE <<"updated", t>>
        /\ UNCHANGED pageVars
  \/ \E t \in Tabs :
        /\ MeetingCheckDone(t)
        /\ lastEvent' = IF lastCmd' = "start" THEN <<"checkTrue", t>>
                                               ELSE <<"checkFalse", t>>
        /\ UNCHANGED pageVars
  \/ \E t \in Tabs :
        OnRemoved(t) /\ lastEvent' = <<"removed", t>> /\ UNCHANGED pageVars
  \/ \E t \in Tabs :
        OnActivated(t) /\ lastEvent' = <<"activated", t>> /\ UNCHANGED pageVars
  \/ \E t \in Tabs, u \in Urls :
        TabsGetDone(t, u) /\ lastEvent' = <<"tabsGet", t>> /\ UNCHANGED pageVars
  \/ \E to \in timeouts :
        /\ StartupTimeoutFires(to)
        /\ lastEvent' = <<"timeout", to.tab>>
        /\ UNCHANGED pageVars
  \/ \E iv \in intervals :
        CaptureTick(iv) /\ lastEvent' = <<"tick", iv.tab>> /\ UNCHANGED pageVars
  \/ Advance /\ lastEvent' = <<"advance", 0>> /\ UNCHANGED pageVars

SpecEvents == Init /\ [][NextEvents]_vars

\* ------------------------------------------------------ detector alone
\* checkMeetingStatus run once on a document of the page.
InitDetector ==
  /\ InitScheduler /\ IdleCapturer /\ IdleUploader /\ IdlePages
  /\ document \in Docs
  /\ isInMeeting = NotRun
  /\ popup = PopupClosed

RunCheckMeetingStatus ==
  /\ isInMeeting = NotRun
  /\ isInMeeting' = {checkMeetingStatus(document)}
  /\ UNCHANGED <<document, popup, schedVars, lastEvent, findVars, uploadVars,
                 chainVars, dashVars>>

NextDetector == RunCheckMeetingStatus

SpecDetector == InitDetector /\ [][NextDetector]_vars

\* ------------------------------------------------------ popup
\* The popup's script: it looks for the active Meet tab and runs its own
\* checkMeetingStatus there.
\* A popup check that accepts any tooltip.
popupCheckMeetingStatusAnyTooltip(doc) ==
  \/ querySelector(doc, "data-is-muted") # Null
  \/ querySelector(doc, "data-allocation-index") # Null
  \/ querySelector(doc, "data-participant-id") # Null
  \/ querySelector(doc, "data-tooltip-id=tt-m0") # Null
  \/ querySelector(doc, "data-tooltip-id=tt-m1") # Null

\* checkMeetingStatus of popup.js
popupCheckMeetingStatus(doc) ==
  \/ querySelector(doc, "data-is-muted") # Null
  \/ querySelector(doc, "data-allocation-index") # Null
  \/ querySelector(doc, "data-participant-id") # Null
  \/ querySelector(doc, "data-tooltip-id=tt-m0") # Null

ActiveLabel == "Active - Sending images to server"
NotInMeetingLabel == "Inactive - Not in meeting"
NoMeetTabLabel == "Inactive - No Meet tab"

\* The callback of chrome.tabs.query: tabs.find(...) looks for a tab with a
\* Meet URL that is active; with one, the check is injected into it.
TabsQueryDone(url, active) ==
  /\ popup.pc = "closed"
  /\ LET meetTab == IsMeetUrl(url) /\ active
     IN  popup' = IF meetTab
                  THEN [popup EXCEPT !.pc = "check"]
                  ELSE [pc |-> "done", statusLabel |-> NoMeetTabLabel]
  /\ UNCHANGED <<document, isInMeeting, schedVars, lastEvent, findVars,
                 uploadVars, chainVars, dashVars>>

\* The callback of the popup's executeScript: updateStatus(...)
PopupCheckDone ==
  /\ popup.pc = "check"
  /\ popup' = [pc |-> "done",
               statusLabel |-> IF popupCheckMeetingStatus(document)
                               THEN ActiveLabel ELSE NotInMeetingLabel]
  /\ UNCHANGED <<document, isInMeeting, schedVars, lastEvent, findVars,
                 uploadVars, chainVars, dashVars>>

\* The popup and the background each check the same document of the tab.
InitPopup == InitDetector

NextPopup ==
  \/ RunCheckMeetingStatus
  \/ \E url \in Urls, active \in BOOLEAN : TabsQueryDone(url, active)
  \/ PopupCheckDone

SpecPopup == InitPopup /\ [][NextPopup]_vars

\* ------------------------------------------------------ frame capturer
\* A video element as captureCameraImage looks at it.
OffsetSizes == {50, 100, 101}
ReadyStates == {0, 4}
VideoElement ==
  [ offsetWidth : OffsetSizes, offsetHeight : OffsetSizes,
    srcObject : BOOLEAN, readyState : ReadyStates ]

RECURSIVE SeqsUpTo(_, _)
SeqsUpTo(S, n) ==
  IF n = 0 THEN {<<>>}
  ELSE LET shorter == SeqsUpTo(S, n - 1)
       IN  shorter \cup {Append(q, x) : q \in {r \in shorter : Len(r) = n - 1}, x \in S}

\* A predicate that accepts an element as soon as one side is large enough.
isMainVideoEitherSide(video) ==
  /\ (video.offsetWidth > 100 \/ video.offsetHeight > 100)
  /\ video.srcObject
  /\ video.readyState = 4

\* The predicate handed to Array.prototype.find
isMainVideo(video) ==
  /\ video.offsetWidth > 100
  /\ video.offsetHeight > 100
  /\ video.srcObject
  /\ video.readyState = 4

\* videoElements.find(...): index of the first element the predicate
\* accepts, scanning from index i; 0 for undefined.
RECURSIVE findFrom(_, _)
findFrom(videos, i) ==
  IF i > Len(videos) THEN 0
  ELSE IF isMainVideo(videos[i]) THEN i
  ELSE findFrom(videos, i + 1)

find(videos) == findFrom(videos, 1)

InitCapturer ==
  /\ InitScheduler /\ IdleDetector /\ IdleUploader /\ IdlePages
  /\ videoElements \in SeqsUpTo(VideoElement, MaxVideos)
  /\ mainVideo = NotSearched

\* captureCameraImage up to the choice of mainVideo
SelectMainVideo ==
  /\ mainVideo = NotSearched
  /\ mainVideo' = find(videoElements)
  /\ UNCHANGED <<videoElements, schedVars, lastEvent, detectVars, uploadVars,
                 chainVars, dashVars>>

NextCapturer == SelectMainVideo

SpecCapturer == InitCapturer /\ [][NextCapturer]_vars

\* ------------------------------------------------------ uploader alone
InitUploader ==
  /\ InitScheduler /\ IdleDetector /\ IdleCapturer /\ IdlePages
  /\ storage = NoId
  /\ uuids = 0
  /\ msgs = [m \in Msgs |-> NoMessage]

UploaderOnly ==
  UNCHANGED <<schedVars, lastEvent, detectVars, findVars, chainVars, dashVars>>

\* Calls of getDeviceId that have delivered their identifier.
Delivered == {k \in DOMAIN msgs : msgs[k].deviceId # NoId}

\* Calls of getDeviceId that found the key absent and have not written yet.
PendingWriters ==
  {k \in DOMAIN msgs : \/ msgs[k].pc = "storageGot" /\ msgs[k].snapshot = NoId
                \/ msgs[k].pc = "storageSet"}

\* chrome.runtime.onMessage listener: an IMAGE_CAPTURED message calls
\* getDeviceId, which issues chrome.storage.local.get; any other message
\* is left alone.
OnMessage(m, type) ==
  /\ msgs[m].pc = "none"
  /\ \A k \in 1..(m - 1) : msgs[k].pc # "none"
  /\ msgs' = [msgs EXCEPT ![m] =
                IF type = "IMAGE_CAPTURED"
                THEN [@ EXCEPT !.pc = "storageGet", !.before = Delivered]
                ELSE [@ EXCEPT !.pc = "ignored"]]
  /\ UNCHANGED <<storage, uuids>>
  /\ UploaderOnly

\* The storage serves the get: it reads the key.
StorageGetReads(m) ==
  /\ msgs[m].pc = "storageGet"
  /\ msgs' = [msgs EXCEPT ![m] = [@ EXCEPT !.pc = "storageGot",
                                           !.snapshot = storage]]
  /\ UNCHANGED <<storage, uuids>>
  /\ UploaderOnly

\* callback(deviceId) as the message listener passes it: sendImageToBackend
\* is called and issues the POST.
callback(m, deviceId) ==
  [msgs[m] EXCEPT !.pc = "fetch", !.deviceId = deviceId, !.posts = @ + 1]

\* A getDeviceId that never looks at what the storage returned.
GetDeviceIdGotAlwaysNew(m) ==
  /\ msgs[m].pc = "storageGot"
  /\ uuids' = uuids + 1
  /\ msgs' = [msgs EXCEPT ![m] = [@ EXCEPT !.pc = "storageSet",
                                           !.newId = uuids + 1]]
  /\ UNCHANGED storage
  /\ UploaderOnly

\* A getDeviceId that hands out a new identifier without storing it first.
GetDeviceIdGotUnstored(m) ==
  /\ msgs[m].pc = "storageGot"
  /\ IF msgs[m].snapshot # NoId
     THEN /\ msgs' = [msgs EXCEPT ![m] = callback(m, msgs[m].snapshot)]
          /\ UNCHANGED uuids
     ELSE /\ uuids' = uuids + 1
          /\ msgs' = [msgs EXCEPT ![m] = callback(m, uuids + 1)]
  /\ UNCHANGED storage
  /\ UploaderOnly

\* getDeviceId, the callback of chrome.storage.local.get: deliver the stored
\* identifier, or generate one and issue chrome.storage.local.set.
GetDeviceIdGot(m) ==
  /\ msgs[m].pc = "storageGot"
  /\ IF msgs[m].snapshot # NoId
     THEN /\ msgs' = [msgs EXCEPT ![m] = callback(m, msgs[m].snapshot)]
          /\ UNCHANGED uuids
     ELSE /\ uuids' = uuids + 1
          /\ msgs' = [msgs EXCEPT ![m] = [@ EXCEPT !.pc = "storageSet",
                                                   !.newId = uuids + 1]]
  /\ UNCHANGED storage
  /\ UploaderOnly

\* A storage that keeps the identifier it already holds.
StorageSetKeepsFirst(m) ==
  /\ msgs[m].pc = "storageSet"
  /\ storage' = IF storage = NoId THEN msgs[m].newId ELSE storage
  /\ msgs' = [msgs EXCEPT ![m] = [@ EXCEPT !.pc = "storageWritten",
                                           !.quiet = (PendingWriters \ {m} = {})]]
  /\ UNCHANGED uuids
  /\ UploaderOnly

\* The storage serves the set: it writes the key.
StorageSetWrites(m) ==
  /\ msgs[m].pc = "storageSet"
  /\ storage' = msgs[m].newId
  /\ msgs' = [msgs EXCEPT ![m] = [@ EXCEPT !.pc = "storageWritten",
                                           !.quiet = (PendingWriters \ {m} = {})]]
  /\ UNCHANGED uuids
  /\ UploaderOnly

\* getDeviceId, the callback of chrome.storage.local.set
GetDeviceIdSetDone(m) ==
  /\ msgs[m].pc = "storageWritten"
  /\ msgs' = [msgs EXCEPT ![m] =
                [callback(m, msgs[m].newId) EXCEPT !.generated = TRUE]]
  /\ UNCHANGED <<storage, uuids>>
  /\ UploaderOnly

\* A sendImageToBackend that never looks at response.ok.
afterFetchIgnoringStatus(status) ==
  IF status = NoResponse THEN "rejected" ELSE "json"

\* sendImageToBackend once fetch has settled: a rejected fetch and a
\* response that is not ok both end in the catch block, which rethrows;
\* otherwise the body is awaited.
afterFetch(status) ==
  IF status = NoResponse THEN "rejected"
  ELSE IF ~ResponseOk(status) THEN "rejected"
  ELSE "json"

\* A fetch that is served only while the capture timer runs.
FetchSettlesWhileCapturing(m, status) ==
  /\ msgs[m].pc = "fetch"
  /\ captureInterval # NoTimer
  /\ msgs' = [msgs EXCEPT ![m] =
                [@ EXCEPT !.status = status,
                          !.pc = afterFetch(status),
                          !.promise = IF afterFetch(status) = "rejected"
                                      THEN "rejected" ELSE "pending"]]
  /\ UNCHANGED <<storage, uuids>>
  /\ UploaderOnly

FetchSettles(m, status) ==
  /\ msgs[m].pc = "fetch"
  /\ msgs' = [msgs EXCEPT ![m] =
                [@ EXCEPT !.status = status,
                          !.pc = afterFetch(status),
                          !.promise = IF afterFetch(status) = "rejected"
                                      THEN "rejected" ELSE "pending"]]
  /\ UNCHANGED <<storage, uuids>>
  /\ UploaderOnly

\* sendImageToBackend once response.json() has settled
JsonSettles(m, parsed) ==
  /\ msgs[m].pc = "json"
  /\ msgs' = [msgs EXCEPT ![m] =
                IF parsed
                THEN [@ EXCEPT !.jsonRead = TRUE, !.pc = "resolved",
                               !.promise = "resolved"]
                ELSE [@ EXCEPT !.pc = "rejected", !.promise = "rejected"]]
  /\ UNCHANGED <<storage, uuids>>
  /\ UploaderOnly

\* .then(result => sendResponse({ success: true }))
OnFulfilled(m) ==
  /\ msgs[m].pc = "resolved"
  /\ msgs' = [msgs EXCEPT ![m] = [@ EXCEPT !.pc = "done", !.success = TRUE,
                                           !.responses = @ + 1]]
  /\ UNCHANGED <<storage, uuids>>
  /\ UploaderOnly

\* A catch handler that also stops the capture.
OnRejectedStopping(m) ==
  /\ msgs[m].pc = "rejected"
  /\ msgs' = [msgs EXCEPT ![m] = [@ EXCEPT !.pc = "done", !.success = FALSE,
                                           !.responses = @ + 1]]
  /\ intervals' = {i \in intervals : i.id # captureInterval}
  /\ captureInterval' = NoTimer
  /\ UNCHANGED <<storage, uuids>>
  /\ UNCHANGED <<timeouts, nstarts, open, pending, badge, lastCmd, age,
                 sinceStart, cleanStart>>
  /\ UNCHANGED <<lastEvent, detectVars, findVars, chainVars, dashVars>>

\* A catch handler that sends the image once more before it answers.
OnRejectedRetrying(m) ==
  /\ msgs[m].pc = "rejected"
  /\ msgs' = [msgs EXCEPT ![m] =
                IF msgs[m].posts < 2
                THEN [@ EXCEPT !.pc = "fetch", !.posts = @ + 1,
                               !.promise = "pending"]
                ELSE [@ EXCEPT !.pc = "done", !.success = FALSE,
                               !.responses = @ + 1]]
  /\ UNCHANGED <<storage, uuids>>
  /\ UploaderOnly

\* .catch(error => sendResponse({ success: false, error: error.message }))
OnRejected(m) ==
  /\ msgs[m].pc = "rejected"
  /\ msgs' = [msgs EXCEPT ![m] = [@ EXCEPT !.pc = "done", !.success = FALSE,
                                           !.responses = @ + 1]]
  /\ UNCHANGED <<storage, uuids>>
  /\ UploaderOnly

NextUploader ==
  \/ \E m \in DOMAIN msgs, type \in MessageTypes : OnMessage(m, type)
  \/ \E m \in DOMAIN msgs : StorageGetReads(m)
  \/ \E m \in DOMAIN msgs : GetDeviceIdGot(m)
  \/ \E m \in DOMAIN msgs : StorageSetWrites(m)
  \/ \E m \in DOMAIN msgs : GetDeviceIdSetDone(m)
  \/ \E m \in DOMAIN msgs, status \in Statuses \cup {NoResponse} : FetchSettles(m, status)
  \/ \E m \in DOMAIN msgs, parsed \in BOOLEAN : JsonSettles(m, parsed)
  \/ \E m \in DOMAIN msgs : OnFulfilled(m)
  \/ \E m \in DOMAIN msgs : OnRejected(m)

SpecUploader == InitUploader /\ [][NextUploader]_vars

\* ------------------------------------------------------ device id alone
\* The getDeviceId calls of IMAGE_CAPTURED messages, followed up to the
\* delivery of the identifier.
Calls == 1..MaxCalls

InitDeviceId ==
  /\ InitScheduler /\ IdleDetector /\ IdleCapturer /\ IdlePages
  /\ storage = NoId
  /\ uuids = 0
  /\ msgs = [m \in Calls |-> NoMessage]

NextDeviceId ==
  \/ \E m \in DOMAIN msgs : OnMessage(m, "IMAGE_CAPTURED")
  \/ \E m \in DOMAIN msgs : StorageGetReads(m)
  \/ \E m \in DOMAIN msgs : GetDeviceIdGot(m)
  \/ \E m \in DOMAIN msgs : StorageSetWrites(m)
  \/ \E m \in DOMAIN msgs : GetDeviceIdSetDone(m)

SpecDeviceId == InitDeviceId /\ [][NextDeviceId]_vars

\* ------------------------------------------------------ capture attempts
\* captureCameraImage as the page runs it: the call a tick injects and the
\* calls it schedules for itself.
MaxRetries == 10           \* if (retryCount < 10)
RetryDelay == 1            \* setTimeout(() => captureCameraImage(...), 1000)

NarrowVideo == [offsetWidth |-> 100, offsetHeight |-> 101,
                srcObject |-> TRUE, readyState |-> 4]
ReadyVideo  == [offsetWidth |-> 101, offsetHeight |-> 101,
                srcObject |-> TRUE, readyState |-> 4]
\* The page before and after the camera tile has rendered.
PageSamples == { <<NarrowVideo>>, <<NarrowVideo, ReadyVideo>> }

\* What the try block can throw.
Thrown == {"none", "drawImage", "toDataURL"}

\* captureCameraImage() as executeScript calls it: retryCount = 0.  pc is
\* "scheduled" while a call of the chain is due or waiting on its timeout;
\* retryCount is the argument of that call, and is kept past the last call
\* only by a chain that gave up.
NewChain ==
  [ pc |-> "scheduled", retryCount |-> 0, rem |-> 0,
    messages |-> 0, errors |-> 0 ]

\* A retry test that admits one call more.
noMainVideoOneMore(ch) ==
  IF ch.retryCount <= MaxRetries
  THEN [ch EXCEPT !.retryCount = @ + 1, !.rem = RetryDelay]
  ELSE [ch EXCEPT !.pc = "gaveUp"]

\* if (!mainVideo): schedule the next call, or give up.
noMainVideo(ch) ==
  IF ch.retryCount < MaxRetries
  THEN [ch EXCEPT !.retryCount = @ + 1, !.rem = RetryDelay]
  ELSE [ch EXCEPT !.pc = "gaveUp"]

\* A catch block that schedules another call.
catchRetrying(ch) ==
  [ch EXCEPT !.errors = @ + 1, !.retryCount = 0, !.rem = RetryDelay]

\* catch (error) { console.error(...) }
catch(ch) ==
  [ch EXCEPT !.pc = "threw", !.errors = @ + 1, !.retryCount = 0]

\* A send after which the chain goes on.
sendMessageAndRetry(ch) ==
  [ch EXCEPT !.messages = @ + 1, !.retryCount = 0, !.rem = RetryDelay]

\* chrome.runtime.sendMessage({ type: 'IMAGE_CAPTURED', ... })
sendMessage(ch) ==
  [ch EXCEPT !.pc = "sent", !.messages = @ + 1, !.retryCount = 0]

\* One call of captureCameraImage(retryCount) of chain c.
captureCameraImage(c, thrown) ==
  /\ chains[c].pc = "scheduled"
  /\ chains[c].rem = 0
  /\ chains' = [chains EXCEPT ![c] =
                  IF find(videoElements) = 0 THEN noMainVideo(@)
                  ELSE IF thrown # "none" THEN catch(@)
                  ELSE sendMessage(@)]
  /\ UNCHANGED <<schedVars, lastEvent, detectVars, findVars, uploadVars,
                 dashVars>>

\* A capture tick together with the call it injects into its tab.  Of the
\* ticks after the first MaxTicks only the timer is followed.
CaptureTickInjects(iv) ==
  /\ CaptureTick(iv)
  /\ chains' = IF open[iv.tab] /\ Len(chains) < MaxTicks
               THEN Append(chains, NewChain)
               ELSE chains
  /\ UNCHANGED <<lastEvent, detectVars, findVars, uploadVars, dashVars>>

ChainDue ==
  \E c \in DOMAIN chains : chains[c].pc = "scheduled" /\ chains[c].rem = 0

\* One second passes for the background's timers and the page's.
SecondPasses ==
  /\ ~TimerDue
  /\ ~ChainDue
  /\ timeouts'  = {[x EXCEPT !.rem = @ - 1] : x \in timeouts}
  /\ intervals' = {[x EXCEPT !.rem = @ - 1] : x \in intervals}
  /\ chains' = [c \in DOMAIN chains |->
                  IF chains[c].pc = "scheduled"
                  THEN [chains[c] EXCEPT !.rem = @ - 1]
                  ELSE chains[c]]
  /\ UNCHANGED <<captureInterval, nstarts, open, pending, badge, lastCmd,
                 age, sinceStart, cleanStart>>
  /\ UNCHANGED <<lastEvent, detectVars, findVars, uploadVars, dashVars>>

\* The page renders or drops its camera tile.
PageChanges ==
  /\ videoElements' \in PageSamples \ {videoElements}
  /\ UNCHANGED <<mainVideo, schedVars, lastEvent, detectVars, uploadVars,
                 chainVars, dashVars>>

\* The scheduler as the startup timeout of a first start leaves it, in a
\* browser whose one tab is tab 1; the history of that start is not followed.
RunningScheduler ==
  /\ captureInterval = 1
  /\ timeouts = {}
  /\ intervals = {[id |-> 1, tab |-> 1, rem |-> Period]}
  /\ nstarts = 1
  /\ open = [t \in Tabs |-> t = 1]
  /\ pending = [k \in PendingKinds |-> [t \in Tabs |-> 0]]
  /\ badge = "ON"
  /\ lastCmd = "start"
  /\ cleanStart = FALSE
  /\ age = 0
  /\ sinceStart = 0

InitChains ==
  /\ RunningScheduler
  /\ lastEvent = <<"init", 0>>
  /\ IdleDetector /\ IdleUploader /\ IdleDashboard
  /\ videoElements \in PageSamples
  /\ mainVideo = NotSearched
  /\ chains = <<>>

TimersRun ==
  \/ \E iv \in intervals : CaptureTickInjects(iv)
  \/ \E c \in DOMAIN chains, thrown \in Thrown : captureCameraImage(c, thrown)
  \/ SecondPasses

NextChains ==
  \/ \E iv \in intervals : CaptureTickInjects(iv)
  \/ \E c \in DOMAIN chains, thrown \in Thrown : captureCameraImage(c, thrown)
  \/ SecondPasses
  \/ PageChanges

\* A timer that is due fires, and time passes.
SpecChains == InitChains /\ [][NextChains]_vars /\ WF_vars(TimersRun)

\* ------------------------------------------------------ dashboard
\* The submit handler of the lookup page's search form.
Undefined == -1            \* a property the value does not have

\* What response.json() can resolve with.
EmptyArray  == [type |-> "array",  items |-> <<>>]
OneRow      == [type |-> "array",  items |-> <<"row">>]
TwoRows     == [type |-> "array",  items |-> <<"row", "row">>]
NullRow     == [type |-> "array",  items |-> <<"null">>]
EmptyString == [type |-> "string", items |-> <<>>]
ErrorObject == [type |-> "object", items |-> <<>>]
JsonNull    == [type |-> "null",   items |-> <<>>]
JsonValues  == {EmptyArray, OneRow, TwoRows, NullRow, EmptyString,
                ErrorObject, JsonNull}
NoData == [type |-> "none", items |-> <<>>]   \* no body was read

\* data.length
length(data) ==
  IF data.type \in {"array", "string"} THEN Len(data.items) ELSE Undefined

\* A handler that has no test for the empty result.
renderWithoutEmptyTest(data) ==
  IF data.type = "null" THEN "error"
  ELSE IF data.type # "array" THEN "error"
  ELSE IF \E i \in 1..Len(data.items) : data.items[i] = "null" THEN "error"
  ELSE "table"

\* The handler from the line after `await response.json()` to the end of
\* the try and catch blocks: what resultsDiv.innerHTML is set to.  Reading
\* .length of null, calling .map of a value that is no array, and reading
\* .email of a null item each throw a TypeError, which the catch block turns
\* into the error message.
render(data) ==
  IF data.type = "null" THEN "error"
  ELSE IF length(data) = 0 THEN "noData"
  ELSE IF data.type # "array" THEN "error"
  ELSE IF \E i \in 1..Len(data.items) : data.items[i] = "null" THEN "error"
  ELSE "table"

NewQuery == [pc |-> "fetch", data |-> NoData, failed |-> FALSE,
             rendered |-> "nothing"]

\* The submit event: the handler shows the overlay and issues the fetch.
OnSubmit ==
  /\ Len(queries) < MaxQueries
  /\ overlay' = "flex"
  /\ queries' = Append(queries, NewQuery)
  /\ UNCHANGED results
  /\ UNCHANGED <<schedVars, lastEvent, detectVars, findVars, uploadVars,
                 chainVars>>

\* await fetch(...) settles: it resolves with a response of any status, or
\* rejects; the rejection is caught and the finally block hides the overlay.
QueryFetchSettles(q, resolved) ==
  /\ queries[q].pc = "fetch"
  /\ IF resolved
     THEN /\ queries' = [queries EXCEPT ![q] = [@ EXCEPT !.pc = "json"]]
          /\ UNCHANGED <<overlay, results>>
     ELSE /\ queries' = [queries EXCEPT ![q] =
                           [@ EXCEPT !.pc = "done", !.failed = TRUE,
                                     !.rendered = "error"]]
          /\ results' = "error"
          /\ overlay' = "none"
  /\ UNCHANGED <<schedVars, lastEvent, detectVars, findVars, uploadVars,
                 chainVars>>

\* await response.json() settles: with a value, which is rendered, or with
\* a rejection (the body is no JSON), which is caught; the finally block
\* hides the overlay.
QueryJsonSettles(q, parsed, data) ==
  /\ queries[q].pc = "json"
  /\ LET shown == IF parsed THEN render(data) ELSE "error"
     IN  /\ queries' = [queries EXCEPT ![q] =
                          [@ EXCEPT !.pc = "done",
                                    !.data = IF parsed THEN data ELSE NoData,
                                    !.failed = ~parsed,
                                    !.rendered = shown]]
         /\ results' = shown
  /\ overlay' = "none"
  /\ UNCHANGED <<schedVars, lastEvent, detectVars, findVars, uploadVars,
                 chainVars>>

InitDashboard ==
  /\ InitScheduler /\ IdleDetector /\ IdleCapturer /\ IdleUploader
  /\ IdleChains
  /\ overlay = "none"
  /\ results = "empty"
  /\ queries = <<>>

NextDashboard ==
  \/ OnSubmit
  \/ \E q \in DOMAIN queries, resolved \in BOOLEAN :
        QueryFetchSettles(q, resolved)
  \/ \E q \in DOMAIN queries, parsed \in BOOLEAN, data \in JsonValues :
        QueryJsonSettles(q, parsed, data)

SpecDashboard == InitDashboard /\ [][NextDashboard]_vars

\* ------------------------------------------------------ background as a whole
\* The capture timer, the removal of a tab and the uploads of the messages
\* that arrive, side by side in the one service worker.
\* Uploads dispatched and not yet answered, and uploads answered.
InFlight ==
  {m \in DOMAIN msgs : msgs[m].pc \in {"fetch", "json", "resolved", "rejected"}}
Answered == {m \in DOMAIN msgs : msgs[m].pc = "done"}
Failed == {m \in Answered : ~msgs[m].success}

\* lastEvent records here the latest tick, with the uploads that had failed
\* when it fired, or the removal, with the uploads in flight when it ran.

\* The device id has been stored by an earlier upload.
InitBackground ==
  /\ RunningScheduler
  /\ storage = 1
  /\ uuids = 1
  /\ msgs = [m \in Msgs |-> NoMessage]
  /\ lastEvent = <<"init", 0, {}>>
  /\ IdleDetector /\ IdleCapturer /\ IdlePages

\* The steps of the uploads under way.  With the device id stored,
\* getDeviceId always takes the branch that delivers what it read.
UploadsRun ==
  \/ \E m \in DOMAIN msgs : StorageGetReads(m)
  \/ \E m \in DOMAIN msgs : GetDeviceIdGot(m)
  \/ \E m \in DOMAIN msgs, status \in Statuses \cup {NoResponse} :
        FetchSettles(m, status)
  \/ \E m \in DOMAIN msgs, parsed \in BOOLEAN : JsonSettles(m, parsed)
  \/ \E m \in DOMAIN msgs : OnFulfilled(m)
  \/ \E m \in DOMAIN msgs : OnRejected(m)

NextBackground ==
  \/ \E iv \in intervals :
        /\ CaptureTick(iv)
        /\ lastEvent' = <<"tick", iv.tab, Failed>>
        /\ UNCHANGED pageVars
  \/ Advance /\ UNCHANGED <<lastEvent, pageVars>>
  \/ \E t \in Tabs :
        /\ OnRemoved(t)
        /\ lastEvent' = <<"removed", t, InFlight>>
        /\ UNCHANGED pageVars
  \/ \E m \in DOMAIN msgs : OnMessage(m, "IMAGE_CAPTURED")
  \/ UploadsRun

\* The browser settles every storage call and every request, and runs the
\* handlers of a settled promise.
SpecBackground ==
  InitBackground /\ [][NextBackground]_vars /\ WF_vars(UploadsRun)

\* ------------------------------------------------------ scheduler claims
\* The interval the handle names, when it runs in tab t.
ActiveTimer(t) == {iv \in intervals : iv.id = captureInterval /\ iv.tab = t}
ActiveFor(t) == ActiveTimer(t) # {}

\* C1: in every reachable state at most one capture interval timer is live.
C1_AtMostOneLiveTimer == Cardinality(intervals) <= 1

\* C2: once stopCameraCapture has run, no capture tick fires until
\* startCameraCapture is called again.
C2_NoTickAfterStop == lastCmd = "stop" => lastEvent[1] # "tick"

\* C3: after a start that leaves only its own startup timeout alive, and
\* no further start or stop, no capture tick fires before 3 s have elapsed,
\* exactly one has fired once the timers due at 3 s have run, and one more
\* fires every 2 s after that.
C3_FirstTickAfterDelayPlusPeriod ==
  cleanStart =>
    /\ age < 3 => sinceStart = 0
    /\ (age = 3 /\ ~TimerDue) => sinceStart = 1
    /\ (age >= 3 /\ ~TimerDue) => sinceStart = (age - 1) \div 2
    /\ (age >= 3 /\ TimerDue) => sinceStart = ((age - 1) \div 2) - 1

C3_Witness == cleanStart /\ age = 3 /\ ~TimerDue /\ sinceStart = 1

\* C4: after the removal of tab t, a completed update of t to a URL that is
\* no meeting URL, or a meeting check of t that returned false, the capture
\* timer of t is cleared.
C4_IdleAfterLifecycleEvent ==
  \A t \in Tabs :
    lastEvent \in {<<"removed", t>>, <<"navigatedAway", t>>, <<"checkFalse", t>>}
      => ~ActiveFor(t)

\* C5: while tab t has an active capture timer, a removal, update or
\* activation step that concerns another tab leaves that timer running and
\* unchanged.
LifecycleKinds == {"removed", "navigatedAway", "updated", "activated",
                   "tabsGet", "checkTrue", "checkFalse"}
C5_OtherTabLeavesTimer ==
  [][\A t \in Tabs :
       (ActiveFor(t) /\ lastEvent'[1] \in LifecycleKinds /\ lastEvent'[2] # t)
         => ActiveTimer(t)' = ActiveTimer(t)]_vars

\* ------------------------------------------------------ detector claims
AllMarkers == KnownMarkers \cup ExtraMarkers

\* C6 as stated: checkMeetingStatus returns true for every document with one
\* of the five known markers and false for every document lacking all five.
C6_FiveMarkersDecide ==
  isInMeeting # NotRun => isInMeeting = {document \cap KnownMarkers # {}}

\* C6 as amended: checkMeetingStatus returns true exactly for the documents
\* that contain one of the nine elements it queries: the five known markers
\* or a meeting-area, meeting-container, meeting-title or meeting-status
\* attribute.
C6_NineMarkersDecide ==
  isInMeeting # NotRun => isInMeeting = {document \cap AllMarkers # {}}

C6_Witness ==
  /\ isInMeeting = {TRUE}
  /\ document \cap KnownMarkers = {}
  /\ document \cap ExtraMarkers # {}

\* ------------------------------------------------------ capturer claims
\* C7: the element selected is the first in document order with rendered
\* width > 100, rendered height > 100, a media source and ready-state 4;
\* none is selected when no element has all four; an element with both
\* sides at most 100 is never selected.
C7_FirstQualifyingVideo ==
  mainVideo # NotSearched =>
    LET ok(v) == /\ v.offsetWidth > 100 /\ v.offsetHeight > 100
                 /\ v.srcObject /\ v.readyState = 4
    IN  /\ mainVideo \in 0..Len(videoElements)
        /\ mainVideo # 0 =>
              /\ ok(videoElements[mainVideo])
              /\ \A j \in 1..(mainVideo - 1) : ~ok(videoElements[j])
              /\ ~(/\ videoElements[mainVideo].offsetWidth <= 100
                    /\ videoElements[mainVideo].offsetHeight <= 100)
        /\ mainVideo = 0 =>
              \A j \in 1..Len(videoElements) : ~ok(videoElements[j])

C7_Witness ==
  /\ mainVideo = 2
  /\ videoElements[1].offsetWidth <= 100
  /\ videoElements[1].offsetHeight <= 100
  /\ videoElements[1].srcObject
  /\ videoElements[1].readyState = 4

\* ------------------------------------------------------ uploader claims
\* C8 as stated: an identifier that a getDeviceId call generated and delivered
\* is the identifier every getDeviceId call made after that delivery delivers.
C8_GeneratedIdStable ==
  \A c1 \in DOMAIN msgs, c2 \in DOMAIN msgs :
    (msgs[c1].generated /\ c1 \in msgs[c2].before /\ msgs[c2].deviceId # NoId)
      => msgs[c2].deviceId = msgs[c1].deviceId

\* C8 as amended: the same, for an identifier written to storage while no
\* other getDeviceId call had read the empty storage and not yet written.
C8_QuietGeneratedIdStable ==
  \A c1 \in DOMAIN msgs, c2 \in DOMAIN msgs :
    (/\ msgs[c1].generated /\ msgs[c1].quiet
     /\ c1 \in msgs[c2].before /\ msgs[c2].deviceId # NoId)
      => msgs[c2].deviceId = msgs[c1].deviceId

C8_Witness ==
  \E c1 \in DOMAIN msgs, c2 \in DOMAIN msgs :
    /\ msgs[c1].generated /\ msgs[c1].quiet
    /\ c1 \in msgs[c2].before
    /\ msgs[c2].deviceId # NoId
    /\ ~msgs[c2].generated

\* C9: a request that fails, or is answered with a status that is no success,
\* makes sendImageToBackend reject and the handler answer {success: false};
\* {success: true} is answered only for a success status whose JSON body was
\* read; every settled upload is answered, so no rejection goes unhandled.
C9_FailureReported ==
  \A m \in DOMAIN msgs :
    /\ (msgs[m].pc \in {"json", "resolved", "rejected", "done"}
          /\ msgs[m].status \notin 200..299) => msgs[m].promise = "rejected"
    /\ (msgs[m].pc = "done" /\ msgs[m].promise = "rejected")
          => (~msgs[m].success /\ msgs[m].responses = 1)
    /\ msgs[m].success
          => (msgs[m].status \in 200..299 /\ msgs[m].jsonRead)
    /\ msgs[m].pc = "done" => msgs[m].responses = 1

C9_Witness ==
  \E m \in DOMAIN msgs :
    /\ msgs[m].pc = "done"
    /\ msgs[m].status = 500
    /\ ~msgs[m].success
    /\ msgs[m].responses = 1

\* C10: a handled IMAGE_CAPTURED message has caused exactly one POST and one
\* sendResponse call, never more; the POSTs sent are as many as the messages
\* whose device id was resolved.
Posts == SumOver([m \in DOMAIN msgs |-> msgs[m].posts], DOMAIN msgs)
C10_OnePostOneResponse ==
  /\ \A m \in DOMAIN msgs :
       /\ msgs[m].posts <= 1
       /\ msgs[m].responses <= 1
       /\ msgs[m].pc = "done" => (msgs[m].posts = 1 /\ msgs[m].responses = 1)
  /\ Posts = Cardinality(Delivered)

C10_Witness ==
  \E m \in DOMAIN msgs :
    /\ msgs[m].pc = "done"
    /\ ~msgs[m].success
    /\ msgs[m].posts = 1
    /\ Posts = MaxMsgs

\* ------------------------------------------------------ capture claims
Ended(c) ==
  c \in DOMAIN chains /\ chains[c].pc \in {"sent", "threw", "gaveUp"}

\* C11 as stated: a chain is retried after 1 s at most 10 times, and every
\* chain ends either with a frame sent or by giving up after its 11th call
\* found no video, with no message sent and no further call scheduled.
C11_FrameOrGiveUp ==
  \A c \in DOMAIN chains :
    /\ chains[c].retryCount <= MaxRetries
    /\ Ended(c) =>
         \/ chains[c].pc = "sent"
         \/ /\ chains[c].pc = "gaveUp"
            /\ chains[c].retryCount = MaxRetries
            /\ chains[c].messages = 0

\* C11 as amended: a call that finds no qualifying video schedules the next
\* call 1 s later, at most 10 times; every chain a tick starts ends, with a
\* frame sent, with an error caught while drawing or encoding, or by giving
\* up after its 11th call found no video, with no message sent and no further
\* call scheduled.
C11_Safe ==
  \A c \in DOMAIN chains :
    /\ chains[c].retryCount <= MaxRetries
    /\ chains[c].rem <= RetryDelay
    /\ chains[c].pc \in {"scheduled", "sent", "threw", "gaveUp"}
    /\ chains[c].pc = "gaveUp" =>
         (chains[c].retryCount = MaxRetries /\ chains[c].messages = 0)
C11_RetryAfterDelay ==
  \A c \in DOMAIN chains :
    chains'[c].retryCount = chains[c].retryCount + 1 =>
      (chains[c].rem = 0 /\ chains'[c].rem = RetryDelay)
C11_ChainsEnd ==
  /\ []C11_Safe
  /\ [][C11_RetryAfterDelay]_vars
  /\ \A c \in 1..MaxTicks : (Len(chains) >= c) ~> (Ended(c))

C11_Witness ==
  \E c \in DOMAIN chains :
    chains[c].pc = "gaveUp" /\ chains[c].retryCount = MaxRetries

\* C14: an attempt whose try block throws has its error caught: the chain
\* ends there, once, with no IMAGE_CAPTURED message sent and no further call
\* scheduled, and the interval the handle names is still live.
C14_CaughtErrorEndsAttempt ==
  \A c \in DOMAIN chains :
    chains[c].errors > 0 =>
      /\ chains[c].pc = "threw"
      /\ chains[c].errors = 1
      /\ chains[c].messages = 0
      /\ \E iv \in intervals : iv.id = captureInterval

C14_Witness ==
  /\ Len(chains) >= 2
  /\ chains[1].pc = "threw"
  /\ chains[1].messages = 0
  /\ chains[2].pc = "sent"

\* IMAGE_CAPTURED messages sent so far.
Messages == SumOver([c \in DOMAIN chains |-> chains[c].messages], DOMAIN chains)

\* C19: the chain of a tick sends at most one IMAGE_CAPTURED message and ends
\* with it, so the messages sent never outnumber the ticks whose chains they
\* come from.
C19_OneMessagePerTick ==
  /\ \A c \in DOMAIN chains :
       /\ chains[c].messages <= 1
       /\ chains[c].messages = 1 <=> chains[c].pc = "sent"
  /\ Messages <= Len(chains)

\* The chain of the second tick has sent its frame while the chain of the
\* first is still retrying.
C19_Witness ==
  /\ Len(chains) >= 2
  /\ chains[1].pc = "scheduled"
  /\ chains[1].retryCount >= 2
  /\ chains[2].messages = 1
  /\ Messages = 1

\* ------------------------------------------------------ device id race
\* Calls that read the empty storage and generated an identifier.
Generators == {k \in DOMAIN msgs : msgs[k].newId # NoId}
\* Calls that have not delivered yet.
CallsPending ==
  {k \in DOMAIN msgs :
     msgs[k].pc \in {"storageGet", "storageGot", "storageSet", "storageWritten"}}

\* C12: calls that both read the empty storage generate identifiers of their
\* own and each delivers its own; once no call is pending, storage holds the
\* identifier written last (the write that left no call behind which had read
\* the empty storage), and a call made after the generating calls have
\* delivered delivers the stored identifier.
C12_RaceLastWriterWins ==
  /\ \A c1 \in Generators, c2 \in Generators :
       c1 # c2 => msgs[c1].newId # msgs[c2].newId
  /\ \A c \in Generators : msgs[c].deviceId \in {NoId, msgs[c].newId}
  /\ (CallsPending = {} /\ Generators # {}) =>
       \E w \in Generators : msgs[w].quiet /\ storage = msgs[w].newId
  /\ \A c \in DOMAIN msgs :
       (/\ msgs[c].deviceId # NoId
        /\ Generators # {}
        /\ Generators \subseteq msgs[c].before)
         => msgs[c].deviceId = storage

C12_Witness ==
  \E c1 \in Generators, c2 \in Generators, c3 \in DOMAIN msgs \ Generators :
    /\ c1 # c2
    /\ msgs[c1].deviceId = msgs[c1].newId
    /\ msgs[c2].deviceId = msgs[c2].newId
    /\ ~msgs[c1].quiet /\ msgs[c2].quiet
    /\ {c1, c2} \subseteq msgs[c3].before
    /\ msgs[c3].deviceId = msgs[c2].newId
    /\ CallsPending = {}

\* ------------------------------------------------------ dashboard claims
\* C13: a query that returned the empty array has rendered the no-data
\* message, and a query has rendered a table only for an array that is not
\* empty; what the results area shows is what some completed query rendered.
C13_EmptyArrayShowsNoData ==
  /\ \A q \in DOMAIN queries :
       /\ (queries[q].pc = "done" /\ queries[q].data = EmptyArray)
            => queries[q].rendered = "noData"
       /\ queries[q].rendered = "table"
            => (queries[q].data.type = "array" /\ Len(queries[q].data.items) > 0)
  /\ results # "empty" =>
       \E q \in DOMAIN queries :
          queries[q].pc = "done" /\ queries[q].rendered = results

C13_Witness ==
  /\ Len(queries) = 2
  /\ queries[1].pc = "done" /\ queries[1].data = TwoRows
  /\ queries[1].rendered = "table"
  /\ queries[2].pc = "done" /\ queries[2].data = EmptyArray
  /\ queries[2].rendered = "noData"
  /\ results = "noData"

\* Queries whose handler is still awaiting the fetch or the body.
QueriesInFlight == {q \in DOMAIN queries : queries[q].pc # "done"}

\* C18: the overlay is shown while a query is in flight, also a second one
\* submitted during the first, and hidden once every query has completed; a
\* query that failed has rendered the error message.
C18_OverlayWhileInFlight ==
  /\ QueriesInFlight # {} => overlay = "flex"
  /\ (QueriesInFlight = {} /\ queries # <<>>) => overlay = "none"
  /\ \A q \in DOMAIN queries :
       queries[q].failed => (queries[q].pc = "done" /\ queries[q].rendered = "error")

\* ------------------------------------------------------ isolation claims
\* A step in which the upload of message m fails: its request is rejected or
\* answered with a failure status, its body cannot be read, or its failure is
\* answered.
Fails(m) ==
  \/ msgs[m].promise # "rejected" /\ msgs'[m].promise = "rejected"
  \/ msgs[m].pc = "rejected" /\ msgs'[m].pc = "done"

\* C15: a step in which an upload fails leaves the timer handle, the timers,
\* the stored device id and every other message's upload as they were, and a
\* timer that is due can still tick.
C15_FailureIsolated ==
  /\ [][\A m \in DOMAIN msgs :
          Fails(m) =>
            /\ UNCHANGED <<captureInterval, intervals, timeouts, storage>>
            /\ \A k \in DOMAIN msgs \ {m} : msgs'[k] = msgs[k]]_vars
  /\ [](\A iv \in intervals : iv.rem = 0 => ENABLED CaptureTick(iv))

\* A tick has fired after an upload was answered with a failure, while
\* another upload is in flight.
C15_Witness ==
  /\ lastEvent[1] = "tick"
  /\ lastEvent[3] # {}
  /\ InFlight # {}
  /\ storage = 1

\* C16: a step that stops the capture leaves every upload and the stored
\* device id as they were; an answered upload has been answered once, and
\* in the end no dispatched upload is left unanswered, whether or not the
\* capture was stopped meanwhile.
C16_StopLeavesUploads ==
  /\ [][(lastEvent'[1] = "removed" /\ lastEvent' # lastEvent)
          => (lastCmd' = "stop" /\ UNCHANGED <<msgs, storage, uuids, timeouts>>)]_vars
  /\ [](\A m \in Answered : msgs[m].responses = 1)
  /\ <>[](InFlight = {})

\* An upload that was in flight when the tab was removed has been answered.
C16_Witness ==
  /\ lastEvent[1] = "removed"
  /\ captureInterval = NoTimer
  /\ \E m \in lastEvent[3] : m \in Answered /\ msgs[m].responses = 1

\* ------------------------------------------------------ device id use
\* Identifiers whose write to storage has completed.
WrittenIds ==
  {msgs[k].newId :
     k \in {j \in DOMAIN msgs : msgs[j].newId # NoId /\ msgs[j].pc # "storageSet"}}

\* C17: a call that generated an identifier delivers nothing while its write
\* is under way and delivers that identifier once it is written; every
\* request sent carries an identifier that is not empty and whose write to
\* storage had completed.
C17_StoredBeforeUse ==
  \A m \in DOMAIN msgs :
    /\ msgs[m].pc \in {"storageSet", "storageWritten"}
         => (msgs[m].deviceId = NoId /\ msgs[m].posts = 0)
    /\ msgs[m].generated => msgs[m].deviceId = msgs[m].newId
    /\ msgs[m].posts > 0
         => (msgs[m].deviceId # NoId /\ msgs[m].deviceId \in WrittenIds)

C17_Witness ==
  \E m \in DOMAIN msgs, k \in DOMAIN msgs :
    /\ msgs[m].generated /\ msgs[m].posts = 1
    /\ ~msgs[k].generated /\ msgs[k].posts = 1
    /\ msgs[k].deviceId = msgs[m].newId

\* ------------------------------------------------------ badge claim
\* C20: whenever no handler is in the middle of a step, the badge reads ON
\* exactly if the latest scheduler command was startCameraCapture, and is
\* empty exactly if it was stopCameraCapture or none has run yet.
C20_BadgeFollowsCommand ==
  /\ badge \in {"ON", ""}
  /\ badge = "ON" <=> lastCmd = "start"
  /\ badge = "" <=> lastCmd \in {"stop", "none"}

\* A start has been followed by a stop.
C20_Witness ==
  /\ nstarts > 0
  /\ lastCmd = "stop"
  /\ badge = ""
  /\ \E t \in Tabs : ~open[t]

\* ------------------------------------------------------ popup claim
\* C21: on every document on which the popup's check returns true, the
\* background's check returns true: a popup that shows the active label has
\* found one of its markers, and the background's check of that document,
\* once it has run, has returned true.
PopupMarkers == KnownMarkers \ {"video"}
C21_PopupImpliesBackground ==
  /\ popup.statusLabel = ActiveLabel =>
       /\ document \cap PopupMarkers # {}
       /\ isInMeeting # NotRun => isInMeeting = {TRUE}
  /\ (popup.pc = "done" /\ isInMeeting = {FALSE})
       => popup.statusLabel \in {NotInMeetingLabel, NoMeetTabLabel}

C21_Witness ==
  /\ popup.statusLabel = ActiveLabel
  /\ isInMeeting = {TRUE}
  /\ document \cap ExtraMarkers = {}

====
